---- MODULE Spec2Model ----
(***************************************************************************)
(* Model of graphlearn/python/nn/tf/data/dataset.py: class Dataset.        *)
(*                                                                         *)
(* Two specifications share the module:                                    *)
(*   SpecEgo   - a query dag and calls of Dataset.get_egograph;            *)
(*   SpecBatch - a constructed Dataset (declared types/shapes, pos_size),  *)
(*               its flatten generators and calls of get_batchgraph.       *)
(***************************************************************************)
EXTENDS Integers, Sequences, FiniteSets, TLC

VARIABLES dag, ego,
          query, args, edge_types, declared, pos_size,
          total, src_calls, yielded, gen, last_tuple, last_variant, batch

egoVars == <<dag, ego>>
dsVars == <<query, args, edge_types, declared, pos_size>>
genVars == <<total, src_calls, yielded, gen, last_tuple, last_variant>>
vars == <<dag, ego, query, args, edge_types, declared, pos_size,
          total, src_calls, yielded, gen, last_tuple, last_variant, batch>>

\* ------------------------------------------------------------------ bounds
\* Number of dag nodes (aliases) of the query used by get_egograph.
NumNodes == 3
\* Longest `neighbors` list passed to get_egograph.
MaxNbrs == 2
\* Most node types / edge types of a query.
MaxTypes == 2
\* Most keys of induce_additional_spec.
MaxAdd == 1
\* Most successful pulls the raw source serves before OutOfRangeError.
MaxPulls == 2

\* ------------------------------------------------------------ small helpers
SeqsUpTo(S, n) == UNION {[1..k -> S] : k \in 0..n}

RECURSIVE Concat(_)
\* Concatenation of a sequence of sequences (list.extend in a loop).
Concat(ss) == IF ss = <<>> THEN <<>> ELSE Head(ss) \o Concat(Tail(ss))

\* ======================================================================
\*                       get_egograph  (lines 90-149)
\* ======================================================================
Nodes == 1..NumNodes

\* The centric alias `source`. The dag's nodes are numbered in traversal order
\* from it: what lies upstream of the centric node is never read.
Sources == {1}

\* The query dag as get_egograph reads it: per alias the dag node's class
\* ("E" for TraverseEdgeDagNode, "V" otherwise), its pos_downstreams and
\* neg_downstreams. Downstreams only point to later nodes (the dag is acyclic)
\* and no node is both a positive and a negative downstream of the same node.
Pairs == {p \in Nodes \X Nodes : p[1] < p[2]}

Dags ==
  {[kind |-> k,
    pos  |-> [n \in Nodes |-> {m \in Nodes : m > n /\ r[<<n, m>>] = "pos"}],
    neg  |-> [n \in Nodes |-> {m \in Nodes : m > n /\ r[<<n, m>>] = "neg"}]] :
     k \in [Nodes -> {"V", "E"}], r \in [Pairs -> {"no", "pos", "neg"}]}

\* dag_node.shape[-1]: the declared neighbor count of a dag node.
ShapeLast(n) == 10 * n

\* Values of the `neighbors` argument: None, a list of aliases, or a non-list
\* (tuple, str) that may be empty.
NeighborArgs ==
  {[kind |-> "None", items |-> <<>>]}
    \cup {[kind |-> "list", items |-> s] : s \in SeqsUpTo(Nodes, MaxNbrs)}
    \cup {[kind |-> k, items |-> s] : k \in {"tuple", "str"}, s \in SeqsUpTo(Nodes, 1)}

\* `if neighbors:` - Python truthiness of the argument.
Truthy(neighbors) == neighbors.kind # "None" /\ Len(neighbors.items) > 0

\* `isinstance(neighbors, list)`
IsList(neighbors) == neighbors.kind = "list"

IsDownstream_PosOnly(d, pre, dag_node) == dag_node \in d.pos[pre]

\* `dag_node in pre.pos_downstreams + pre.neg_downstreams`
IsDownstream(d, pre, dag_node) == dag_node \in d.pos[pre] \cup d.neg[pre]

TooManyDownstreams_OffByOne(recepts) == Cardinality(recepts) > 2

\* `len(recepts) > 1`
TooManyDownstreams(recepts) == Cardinality(recepts) > 1

\* `isinstance(x, TraverseEdgeDagNode)`
IsTraverseEdge(d, n) == d.kind[n] = "E"

EmptyHops == [status |-> "ok", nbr_nodes |-> <<>>, nbr_nums |-> <<>>,
              nbr_edges |-> <<>>, err_alias |-> 0]

RaiseValueError(alias) == [status |-> "ValueError", nbr_nodes |-> <<>>,
                           nbr_nums |-> <<>>, nbr_edges |-> <<>>,
                           err_alias |-> alias]

\* nbr_edges.append(alias)
AppendEdge(acc, alias) == [acc EXCEPT !.nbr_edges = Append(@, alias)]

\* nbr_nodes.append(alias); nbr_nums.append(shape[-1])
AppendNode(acc, alias) ==
  [acc EXCEPT !.nbr_nodes = Append(@, alias),
              !.nbr_nums = Append(@, ShapeLast(alias))]

RECURSIVE ExplicitLoop(_, _, _, _, _)
\* The `for nbr in neighbors` loop: the hop is classified by the class of
\* `pre`, the node before it.
ExplicitLoop(d, items, i, pre, acc) ==
  IF i > Len(items) THEN acc
  ELSE LET dag_node == items[i] IN
       IF ~IsDownstream(d, pre, dag_node)
       THEN RaiseValueError(dag_node)
       ELSE ExplicitLoop(d, items, i + 1, dag_node,
                         IF IsTraverseEdge(d, pre)
                         THEN AppendEdge(acc, dag_node)
                         ELSE AppendNode(acc, dag_node))

RECURSIVE AutoLoop(_, _, _, _)
\* The `while recepts` loop: the hop is classified by the class of `cur`;
\* `pre` is never advanced and only names the alias of the error message.
AutoLoop(d, pre, recepts, acc) ==
  IF recepts = {} THEN acc
  ELSE IF TooManyDownstreams(recepts) THEN RaiseValueError(pre)
  ELSE LET cur == CHOOSE c \in recepts : TRUE IN
       AutoLoop(d, pre, d.pos[cur],
                IF IsTraverseEdge(d, cur)
                THEN AppendEdge(acc, cur)
                ELSE AppendNode(acc, cur))

\* Dataset.get_egograph: the outcome (raised error or the lists handed to
\* EgoGraph) for a source alias and a neighbors argument.
EgographOutcome(d, source, neighbors) ==
  IF Truthy(neighbors)
  THEN IF ~IsList(neighbors)
       THEN RaiseValueError(0)
       ELSE ExplicitLoop(d, neighbors.items, 1, source, EmptyHops)
  ELSE AutoLoop(d, source, d.pos[source], EmptyHops)

\* The arguments of a call of get_egograph that has not returned yet.
Pending(source, neighbors) ==
  [called |-> FALSE, source |-> source, neighbors |-> neighbors, out |-> EmptyHops]

\* The call of get_egograph; `ego` records its arguments and its outcome.
GetEgograph ==
  /\ ~ego.called
  /\ ego' = [ego EXCEPT !.called = TRUE,
                        !.out = EgographOutcome(dag, ego.source, ego.neighbors)]
  /\ UNCHANGED <<dag, dsVars, genVars, batch>>

\* ======================================================================
\*          Dataset construction and declaration  (lines 60-78, 179-285)
\* ======================================================================
POS_SRC == "src"
POS_DST == "dst"
NEG_DST == "neg_dst"
SubKeys == {POS_SRC, POS_DST, NEG_DST}

\* Node types are 1..n and the query's edge types 1..k; edge types above
\* MaxTypes occur only in the constructor's edge_types argument.
TypeSeq(n, off) == [i \in 1..n |-> i + off]

\* A query as the Dataset reads it: dag.node_types, dag.edge_types, whether
\* NEG_DST is in dag.list_alias(), and one further alias of the raw masks
\* ("none", an edge alias, or a sparse vertex alias). The edge types in force
\* cover the edge index an induced subgraph carries, so there is at least one.
Queries ==
  [node_types : {TypeSeq(n, 0) : n \in 1..MaxTypes},
   edge_types : {TypeSeq(k, 0) : k \in 1..MaxTypes},
   has_neg    : BOOLEAN,
   hop        : {"none", "edge", "sparse"}]

\* Constructor arguments: induce_func (None, or a function whose results are
\* SubGraph or HeteroSubGraph objects), the keys of induce_additional_spec and
\* edge_types (None, or a list that may name types the query does not have).
CtorArgs ==
  [induce_func     : {"None", "SubGraph", "HeteroSubGraph"},
   additional_keys : {TypeSeq(a, 0) : a \in 0..MaxAdd},
   edge_types      : {[given |-> FALSE, list |-> <<>>]}
                       \cup {[given |-> TRUE, list |-> TypeSeq(k, off)] :
                               k \in 1..MaxTypes, off \in {0, MaxTypes}}]

InitEdgeTypes_QueryOnly(a, q) == q.edge_types

\* `self.edge_types = edge_types if edge_types is not None else self._dag.edge_types`
InitEdgeTypes(a, q) ==
  IF a.edge_types.given THEN a.edge_types.list ELSE q.edge_types

\* self._dag.graph.get_node_decoder(node_type): the attribute layout of a
\* node type; the layouts differ between types.
NodeDecoder(t) ==
  [int_attr_num    |-> t % 3,
   float_attr_num  |-> (t + 1) % 2,
   string_attr_num |-> 0,
   labeled         |-> t % 2 = 1,
   weighted        |-> FALSE]

\* node.decoder of an edge alias.
EdgeDecoder ==
  [int_attr_num |-> 0, float_attr_num |-> 1, string_attr_num |-> 0,
   labeled |-> FALSE, weighted |-> TRUE]

\* RawDataset.get_mask: feature mask (int, float, string attrs, labels,
\* weights), id mask (ids, dst_ids) and sparse mask (offsets, indices,
\* dense_shape) of a decoder in a node/edge role.
GetMask(decoder, is_edge, is_sparse) ==
  [feat   |-> <<decoder.int_attr_num > 0, decoder.float_attr_num > 0,
                decoder.string_attr_num > 0, decoder.labeled, decoder.weighted>>,
   id     |-> <<TRUE, is_edge>>,
   sparse |-> <<is_sparse, is_sparse, is_sparse>>]

RECURSIVE MaskSelect(_, _)
\* numpy boolean indexing `np.array(xs)[mask]`
MaskSelect(xs, mask) ==
  IF xs = <<>> THEN <<>>
  ELSE (IF Head(mask) THEN <<Head(xs)>> ELSE <<>>) \o MaskSelect(Tail(xs), Tail(mask))

\* A declared (type, shape) pair, tagged with the field it is declared for;
\* None dimensions are written 0 - 1.
Field(role, type, shape) == [role |-> role, type |-> type, shape |-> shape]
None == 0 - 1

\* Dataset._data_types_and_shapes
DataTypesAndShapes(decoder, is_edge, is_sparse) ==
  LET m == GetMask(decoder, is_edge, is_sparse)
      feat == <<Field("int_attrs", "int64", <<None, decoder.int_attr_num>>),
                Field("float_attrs", "float32", <<None, decoder.float_attr_num>>),
                Field("string_attrs", "string", <<None, decoder.string_attr_num>>),
                Field("labels", "int32", <<None>>),
                Field("weights", "float32", <<None>>)>>
      id == <<Field("ids", "int64", <<None>>), Field("dst_ids", "int64", <<None>>)>>
      sparse == <<Field("offsets", "int64", <<None>>),
                  Field("indices", "int64", <<None, 2>>),
                  Field("dense_shape", "int64", <<None>>)>>
  IN MaskSelect(feat, m.feat) \o MaskSelect(id, m.id) \o MaskSelect(sparse, m.sparse)

\* self._additional_spec[key]: the [type, shape] declared for an additional key.
AdditionalField(key) == Field("additional", "float32", <<None, key>>)

\* The aliases of self._rds.masks in enumeration order, each with its dag
\* node's decoder, class and sparseness.
MaskAliases(q) ==
  <<[alias |-> POS_SRC, decoder |-> NodeDecoder(q.node_types[1]),
     is_edge |-> FALSE, sparse |-> FALSE]>>
  \o (IF q.hop = "edge"
      THEN <<[alias |-> "hop", decoder |-> EdgeDecoder, is_edge |-> TRUE, sparse |-> FALSE]>>
      ELSE IF q.hop = "sparse"
      THEN <<[alias |-> "hop", decoder |-> NodeDecoder(q.node_types[Len(q.node_types)]),
              is_edge |-> FALSE, sparse |-> TRUE]>>
      ELSE <<>>)
  \o (IF q.has_neg
      THEN <<[alias |-> NEG_DST, decoder |-> NodeDecoder(q.node_types[Len(q.node_types)]),
              is_edge |-> FALSE, sparse |-> FALSE]>>
      ELSE <<>>)

\* Dataset._raw_flatten_types_and_shapes
RawFlattenTypesAndShapes(q) ==
  LET al == MaskAliases(q) IN
  Concat([i \in 1..Len(al) |->
            DataTypesAndShapes(al[i].decoder, al[i].is_edge, al[i].sparse)])

\* Dataset._batchgraph_types_and_shapes: edge index per edge type, then per
\* node type its fields and graph_node_offsets, then the additional data.
BatchgraphTypesAndShapes(q, a, ets) ==
  [i \in 1..Len(ets) |-> Field("edge_index", "int32", <<2, None>>)]
  \o Concat([i \in 1..Len(q.node_types) |->
               DataTypesAndShapes(NodeDecoder(q.node_types[i]), FALSE, FALSE)
               \o <<Field("graph_node_offsets", "int64", <<None>>)>>])
  \o [i \in 1..Len(a.additional_keys) |-> AdditionalField(a.additional_keys[i])]

RecordedPosSize_Total(q, a, ets) ==
  Len(BatchgraphTypesAndShapes(q, a, ets)) * (IF q.has_neg THEN 2 ELSE 1)

\* `self.pos_size = len(output_types)`, taken before the negative block is added.
RecordedPosSize(q, a, ets) == Len(BatchgraphTypesAndShapes(q, a, ets))

\* Dataset._batchgraph_flatten_types_and_shapes: the declared sequence.
BatchgraphFlattenTypesAndShapes(q, a, ets) ==
  BatchgraphTypesAndShapes(q, a, ets)
  \o (IF q.has_neg THEN BatchgraphTypesAndShapes(q, a, ets) ELSE <<>>)

\* Dataset._make_iterator: the declared output types/shapes, and pos_size,
\* an attribute that exists only after the batch-mode declaration.
MakeIterator(q, a, ets) ==
  IF a.induce_func = "None"
  THEN [declared |-> RawFlattenTypesAndShapes(q),
        pos_size |-> [set |-> FALSE, value |-> 0]]
  ELSE [declared |-> BatchgraphFlattenTypesAndShapes(q, a, ets),
        pos_size |-> [set |-> TRUE, value |-> RecordedPosSize(q, a, ets)]]


\* ======================================================================
\*                 The flatten generators  (lines 205-244)
\* ======================================================================
\* The tensors of one Data object, in the order its mask selects them.
DataFlatten(decoder, is_edge, is_sparse) ==
  LET m == GetMask(decoder, is_edge, is_sparse)
      T(present, f) == IF present THEN <<f>> ELSE <<>>
  IN T(m.feat[1], Field("int_attrs", "int64", <<None, decoder.int_attr_num>>))
     \o T(m.feat[2], Field("float_attrs", "float32", <<None, decoder.float_attr_num>>))
     \o T(m.feat[3], Field("string_attrs", "string", <<None, decoder.string_attr_num>>))
     \o T(m.feat[4], Field("labels", "int32", <<None>>))
     \o T(m.feat[5], Field("weights", "float32", <<None>>))
     \o T(m.id[1], Field("ids", "int64", <<None>>))
     \o T(m.id[2], Field("dst_ids", "int64", <<None>>))
     \o T(m.sparse[1], Field("offsets", "int64", <<None>>))
     \o T(m.sparse[2], Field("indices", "int64", <<None, 2>>))
     \o T(m.sparse[3], Field("dense_shape", "int64", <<None>>))

\* RawDataset.get_flatten_values: the values of every alias of the masks, in
\* the masks' enumeration order.
GetFlattenValues(q) ==
  LET al == MaskAliases(q) IN
  Concat([i \in 1..Len(al) |-> DataFlatten(al[i].decoder, al[i].is_edge, al[i].sparse)])

\* BatchGraph.from_graphs(graphs, additional_keys).flatten(): the one edge
\* index, the nodes' fields, graph_node_offsets, then the additional data of
\* the keys it was built with. The nodes are those of the POS_SRC type.
BatchGraphFlatten(q, additional_keys) ==
  <<Field("edge_index", "int32", <<2, None>>)>>
  \o DataFlatten(NodeDecoder(q.node_types[1]), FALSE, FALSE)
  \o <<Field("graph_node_offsets", "int64", <<None>>)>>
  \o [i \in 1..Len(additional_keys) |-> AdditionalField(additional_keys[i])]

\* HeteroBatchGraph.from_graphs(graphs).flatten(node_types, edge_types): an
\* edge index per edge type given, then per node type given its fields and
\* graph_node_offsets. It is built without additional keys.
HeteroBatchGraphFlatten(node_types, ets) ==
  [i \in 1..Len(ets) |-> Field("edge_index", "int32", <<2, None>>)]
  \o Concat([i \in 1..Len(node_types) |->
               DataFlatten(NodeDecoder(node_types[i]), FALSE, FALSE)
               \o <<Field("graph_node_offsets", "int64", <<None>>)>>])

\* `isinstance(subgraphs[0], SubGraph)`: the class of what induce_func returns.
FlattenVariant(a) ==
  IF a.induce_func = "SubGraph" THEN "BatchGraph" ELSE "HeteroBatchGraph"

\* The body of the try block of _batchgraph_flatten_generator: flatten_list
\* of one pull. neg_subgraphs is not None when the query has a NEG_DST alias.
BatchgraphFlattenList(q, a, ets) ==
  IF FlattenVariant(a) = "BatchGraph"
  THEN BatchGraphFlatten(q, a.additional_keys)
       \o (IF q.has_neg THEN BatchGraphFlatten(q, a.additional_keys) ELSE <<>>)
  ELSE HeteroBatchGraphFlatten(q.node_types, ets)
       \o (IF q.has_neg THEN HeteroBatchGraphFlatten(q.node_types, ets) ELSE <<>>)

GenAfterOutOfRange_Retry == "running"

\* `except OutOfRangeError: break`
GenAfterOutOfRange == "done"

NoTuple == [some |-> FALSE, fields |-> <<>>]

\* One step of a generator: a pull from the source, which succeeds `total`
\* times and raises OutOfRangeError afterwards. A success yields flatten_list
\* as one tuple; OutOfRangeError leaves the loop.
GeneratorStep(flatten_list, variant) ==
  /\ gen = "running"
  /\ src_calls <= MaxPulls + 1
  /\ src_calls' = src_calls + 1
  /\ IF src_calls < total
     THEN /\ yielded' = yielded + 1
          /\ last_tuple' = [some |-> TRUE, fields |-> flatten_list]
          /\ last_variant' = variant
          /\ gen' = gen
     ELSE /\ gen' = GenAfterOutOfRange
          /\ UNCHANGED <<yielded, last_tuple, last_variant>>
  /\ UNCHANGED <<total, egoVars, dsVars, batch>>

\* Dataset._raw_flatten_generator, the generator of a Dataset without induce_func.
RawFlattenGenerator ==
  /\ args.induce_func = "None"
  /\ GeneratorStep(GetFlattenValues(query), "raw")

\* Dataset._batchgraph_flatten_generator, the generator of a Dataset with induce_func.
BatchgraphFlattenGenerator ==
  /\ args.induce_func # "None"
  /\ GeneratorStep(BatchgraphFlattenList(query, args, edge_types), FlattenVariant(args))

\* ======================================================================
\*                     get_batchgraph  (lines 151-177)
\* ======================================================================
\* self._values: the tensors of iterator.get_next(), one per declared
\* position; a tensor is named by its position.
Values(decl) == [i \in 1..Len(decl) |-> i]

\* Python slice xs[lo:hi] with 0 <= lo, hi.
Slice(xs, lo, hi) ==
  LET h == IF hi > Len(xs) THEN Len(xs) ELSE hi IN
  IF lo >= h THEN <<>> ELSE SubSeq(xs, lo + 1, h)

\* `len(self._dag.node_types) > 1 or len(self.edge_types) > 1`
IsHetero(q, ets) == Len(q.node_types) > 1 \/ Len(ets) > 1

NoneGraph == [is_none |-> TRUE, variant |-> "none", tensors |-> <<>>,
              node_schema |-> <<>>, edge_schema |-> <<>>, additional_keys |-> <<>>]

\* graph.from_tensors(tensors, node_schema, edge_schema, additional_keys):
\* the batch object, by what it is built from.
FromTensors(variant, tensors, node_schema, edge_schema, additional_keys) ==
  [is_none |-> FALSE, variant |-> variant, tensors |-> tensors,
   node_schema |-> node_schema, edge_schema |-> edge_schema,
   additional_keys |-> additional_keys]

\* Dataset.get_batchgraph: the outcome for an alias. The alias is examined
\* last, after both batches are built from self._values and self.pos_size.
BatchgraphOutcome(q, a, ets, decl, psize, alias) ==
  LET hetero == IsHetero(q, ets)
      variant == IF hetero THEN "HeteroBatchGraph" ELSE "BatchGraph"
      node_schema == IF hetero THEN q.node_types ELSE <<q.node_types[1]>>
      edge_schema == IF hetero THEN ets ELSE <<>>
      values == Values(decl)
      pos_graph == FromTensors(variant, Slice(values, 0, psize.value),
                               node_schema, edge_schema, a.additional_keys)
      neg_graph == IF q.has_neg
                   THEN FromTensors(variant, Slice(values, psize.value, Len(values)),
                                    node_schema, edge_schema, a.additional_keys)
                   ELSE NoneGraph
  IN IF ~psize.set
     THEN [status |-> "AttributeError", graph |-> NoneGraph]
     ELSE IF alias = POS_SRC \/ alias = POS_DST
     THEN [status |-> "ok", graph |-> pos_graph]
     ELSE IF alias = NEG_DST
     THEN [status |-> "ok", graph |-> neg_graph]
     ELSE [status |-> "ValueError", graph |-> NoneGraph]

\* Aliases a caller passes: the three SubKeys and one that is none of them.
BatchAliases == SubKeys \cup {"hop"}

NoBatchCall == [called |-> FALSE, alias |-> "", status |-> "", graph |-> NoneGraph]

\* One call of get_batchgraph; `batch` records the call and its outcome.
GetBatchgraph ==
  /\ \E alias \in BatchAliases :
        LET out == BatchgraphOutcome(query, args, edge_types, declared, pos_size, alias)
        IN batch' = [called |-> TRUE, alias |-> alias,
                     status |-> out.status, graph |-> out.graph]
  /\ UNCHANGED <<egoVars, dsVars, genVars>>

\* ======================================================================
\*                          Specifications
\* ======================================================================
\* Dataset.__init__ for a query and constructor arguments.
Constructed(q, a) ==
  LET ets == InitEdgeTypes(a, q)
      it == MakeIterator(q, a, ets)
  IN /\ query = q
     /\ args = a
     /\ edge_types = ets
     /\ declared = it.declared
     /\ pos_size = it.pos_size

FreshGenerator(n) ==
  /\ total = n
  /\ src_calls = 0
  /\ yielded = 0
  /\ gen = "running"
  /\ last_tuple = NoTuple
  /\ last_variant = "none"

DefaultQuery == [node_types |-> <<1>>, edge_types |-> <<1>>,
                 has_neg |-> FALSE, hop |-> "none"]
DefaultArgs == [induce_func |-> "None", additional_keys |-> <<>>,
                edge_types |-> [given |-> FALSE, list |-> <<>>]]

\* get_egograph for every query dag, source alias and neighbors argument, on
\* a Dataset in raw mode.
InitEgo ==
  /\ dag \in Dags
  /\ \E source \in Sources, neighbors \in NeighborArgs : ego = Pending(source, neighbors)
  /\ Constructed(DefaultQuery, DefaultArgs)
  /\ FreshGenerator(0)
  /\ batch = NoBatchCall

NextEgo == GetEgograph

SpecEgo == InitEgo /\ [][NextEgo]_vars

EmptyDag == [kind |-> [n \in Nodes |-> "V"], pos |-> [n \in Nodes |-> {}],
             neg |-> [n \in Nodes |-> {}]]

\* A Dataset constructed for every query and every constructor arguments,
\* over a source that serves 0..MaxPulls units.
InitBatch ==
  /\ dag = EmptyDag
  /\ ego = Pending(1, [kind |-> "None", items |-> <<>>])
  /\ \E q \in Queries, a \in CtorArgs : Constructed(q, a)
  /\ \E n \in 0..MaxPulls : FreshGenerator(n)
  /\ batch = NoBatchCall

NextBatch ==
  \/ RawFlattenGenerator
  \/ BatchgraphFlattenGenerator
  \/ GetBatchgraph

SpecBatch == InitBatch /\ [][NextBatch]_vars

\* ======================================================================
\*                             Properties
\* ======================================================================
Range(xs) == {xs[i] : i \in 1..Len(xs)}

RECURSIVE Chain(_, _)
\* The positive-downstream chain that starts at n: the nodes reached by
\* following the only positive downstream for as long as there is exactly one.
Chain(d, n) ==
  IF Cardinality(d.pos[n]) = 1
  THEN LET m == CHOOSE x \in d.pos[n] : TRUE IN <<m>> \o Chain(d, m)
  ELSE <<>>

\* Some node of the chain, the start included, has several positive downstreams.
Ambiguous(d, n) ==
  \E k \in {n} \cup Range(Chain(d, n)) : Cardinality(d.pos[k]) > 1

NoHops(out) == out.nbr_nodes = <<>> /\ out.nbr_nums = <<>> /\ out.nbr_edges = <<>>

ExplicitMode == ego.called /\ ego.neighbors.kind = "list" /\ Len(ego.neighbors.items) > 0

\* C1: every tuple a generator yields has the length and the position-for-
\* position fields of the type/shape sequence declared by _make_iterator, in
\* raw mode and in batch mode, for every configuration and every pull.
C1_TupleMatchesDeclared ==
  last_tuple.some => last_tuple.fields = declared

\* C2: each successful pull yields exactly one tuple, and the first
\* OutOfRangeError ends the generator with nothing yielded and no further
\* pull: a source that serves `total` units gives exactly `total` tuples and
\* one more pull, after which the generator is done.
C2_OneTuplePerPullThenStop ==
  /\ gen \in {"running", "done"}
  /\ gen = "running" => yielded = src_calls /\ src_calls <= total
  /\ gen = "done" => yielded = total /\ src_calls = total + 1

C2_Witness ==
  /\ args.induce_func # "None"
  /\ gen = "done"
  /\ yielded >= 2
  /\ last_tuple.some

C4_ExplicitClassifiesByOwnKind ==
  (ExplicitMode /\ ego.out.status = "ok") =>
     LET items == ego.neighbors.items
         auto == EgographOutcome(dag, ego.source, [kind |-> "None", items |-> <<>>])
     IN /\ \A i \in 1..Len(items) :
             /\ items[i] \in Range(ego.out.nbr_edges) <=> IsTraverseEdge(dag, items[i])
             /\ ~IsTraverseEdge(dag, items[i]) =>
                   \E j \in 1..Len(ego.out.nbr_nodes) :
                      /\ ego.out.nbr_nodes[j] = items[i]
                      /\ ego.out.nbr_nums[j] = ShapeLast(items[i])
        /\ (auto.status = "ok" /\ items = Chain(dag, ego.source)) =>
              /\ ego.out.nbr_nodes = auto.nbr_nodes
              /\ ego.out.nbr_nums = auto.nbr_nums
              /\ ego.out.nbr_edges = auto.nbr_edges

\* The alias before the i-th alias of the neighbors list.
PreOf(i) == IF i = 1 THEN ego.source ELSE ego.neighbors.items[i - 1]

\* The positions of the list whose alias is no downstream of the alias before it.
NotDownstream ==
  {i \in 1..Len(ego.neighbors.items) :
     ego.neighbors.items[i] \notin dag.pos[PreOf(i)] \cup dag.neg[PreOf(i)]}

\* C5: in explicit mode, if some alias of the list is neither a positive nor
\* a negative downstream of the alias before it (the centric alias for the
\* first), get_egograph raises ValueError at the first such alias and returns
\* nothing; if every alias is such a downstream, no ValueError is raised.
C5_ExplicitValidatesDownstreams ==
  ExplicitMode =>
     IF NotDownstream # {}
     THEN /\ ego.out.status = "ValueError"
          /\ \E i \in NotDownstream :
                /\ \A j \in NotDownstream : i <= j
                /\ ego.out.err_alias = ego.neighbors.items[i]
          /\ NoHops(ego.out)
     ELSE ego.out.status = "ok"

C5_Witness ==
  /\ ExplicitMode
  /\ Len(ego.neighbors.items) = 2
  /\ ego.neighbors.items[1] \in dag.neg[ego.source]
  /\ NotDownstream = {2}
  /\ ego.out.status = "ValueError"

\* C6: get_egograph raises ValueError whenever neighbors is given and is not
\* a list, empty tuples and empty strings included; a non-list never leads to
\* automatic traversal.
C6_NonListAlwaysRejected ==
  (ego.called /\ ego.neighbors.kind \in {"tuple", "str"}) =>
     ego.out.status = "ValueError"

\* C7: get_batchgraph with an alias outside SubKeys raises ValueError and
\* nothing else, however the Dataset was constructed.
C7_UnknownAliasIsValueError ==
  (batch.called /\ batch.alias \notin SubKeys) => batch.status = "ValueError"

\* C8: on a batch-mode Dataset, get_batchgraph(POS_SRC) and
\* get_batchgraph(POS_DST) return the batch built from the first pos_size
\* positions of the pulled tuple, pos_size being the declared length of one
\* batch-mode block; get_batchgraph(NEG_DST) returns the batch built from the
\* remaining positions when the query has a NEG_DST alias and None, without
\* raising, when it has none.
C8_PositiveAndNegativeSlices ==
  (batch.called /\ args.induce_func # "None") =>
     LET block == Len(BatchgraphTypesAndShapes(query, args, edge_types)) IN
     /\ pos_size.set /\ pos_size.value = block
     /\ batch.alias \in {POS_SRC, POS_DST} =>
           /\ batch.status = "ok"
           /\ ~batch.graph.is_none
           /\ batch.graph.tensors = [i \in 1..block |-> i]
     /\ batch.alias = NEG_DST =>
           /\ batch.status = "ok"
           /\ IF query.has_neg
              THEN /\ ~batch.graph.is_none
                   /\ batch.graph.tensors =
                        [i \in 1..(Len(declared) - block) |-> block + i]
              ELSE batch.graph.is_none

C8_Witness ==
  /\ batch.called
  /\ args.induce_func # "None"
  /\ batch.alias = NEG_DST
  /\ query.has_neg
  /\ batch.status = "ok"
  /\ Len(batch.graph.tensors) > 2

\* C9: get_batchgraph builds a heterogeneous batch exactly when the query has
\* several node types or the dataset's edge_types has several edge types; the
\* node schema then has one entry per node type of the query and the edge
\* schema one entry per edge type of edge_types, which is the list given to
\* the constructor when one was given and the query's edge types otherwise.
C9_HeteroDecisionAndSchemas ==
  (batch.called /\ ~batch.graph.is_none) =>
     LET ets == IF args.edge_types.given THEN args.edge_types.list
                ELSE query.edge_types
         hetero == Len(query.node_types) > 1 \/ Len(ets) > 1
     IN /\ batch.graph.variant = (IF hetero THEN "HeteroBatchGraph" ELSE "BatchGraph")
        /\ hetero => /\ batch.graph.node_schema = query.node_types
                     /\ batch.graph.edge_schema = ets

C9_Witness ==
  /\ batch.called
  /\ batch.graph.variant = "HeteroBatchGraph"
  /\ Len(query.node_types) = 1
  /\ args.edge_types.given
  /\ Range(batch.graph.edge_schema) \cap Range(query.edge_types) = {}
  /\ Len(batch.graph.edge_schema) = 2

\* C10: the batch class a pull is flattened through is the class
\* get_batchgraph reconstructs through: HeteroBatchGraph exactly when the
\* query has several node types or edge_types several edge types, BatchGraph
\* otherwise.
C10_FlattenVariantIsReconstructVariant ==
  last_variant \in {"BatchGraph", "HeteroBatchGraph"} =>
     last_variant = (IF IsHetero(query, edge_types)
                     THEN "HeteroBatchGraph" ELSE "BatchGraph")

====
